---- MODULE Spec2Model ----
(***************************************************************************)
(* rvm: an expression compiler (nom parser -> bytecode) and a stack VM,    *)
(* driven by the rmvd interactive shell.                                   *)
(*                                                                         *)
(* Modelling conventions                                                   *)
(*  - A text is a sequence of characters; each character is a string.  The *)
(*    square-root sign U+221A is written "sqrt" (one character).           *)
(*  - Value::Int(i64) is a two's-complement integer of IntBits bits; the   *)
(*    overflow boundary of i64 is moved to IntBits bits, everything else   *)
(*    (checked/wrapping arithmetic, MIN / -1, literal range) is as in i64. *)
(*  - Value::Float(f64) is the rational n/d it denotes (d = 0: n = 1 is    *)
(*    +inf, n = -1 is -inf, n = 0 is NaN).  Rounding and the sign of zero  *)
(*    are not modelled; float literals are kept to exactly representable   *)
(*    (dyadic) values.                                                     *)
(*  - A panic is the record [tag |-> "Panic", msg |-> message].            *)
(*  - The capacity 32 of the shell's operand stack is scaled to StackScale,*)
(*    so that lines nested deeper than the capacity stay short.            *)
(***************************************************************************)
EXTENDS Integers, Sequences, FiniteSets, TLC

VARIABLES
    pc,              \* where the program is: see the specifications below
    debugBuild,      \* build profile: TRUE = dev/test (overflow checks and
                     \* debug assertions on), FALSE = release
    input,           \* rmvd main: the trimmed line being evaluated
    bytecode,        \* Vm.bytecode
    position,        \* Vm::run: the cursor
    stack,           \* Vm.stack.data (Stack.data)
    stackMax,        \* Vm.stack.max  (Stack.max)
    result,          \* what the current operation produced
    out,             \* rmvd main: what the last evaluation printed
    trace,           \* history: the cursor positions Vm::run dispatched from
    args             \* the call or the operands a specification records
                     \* (SpecStack, SpecValue, SpecChain)

vars == <<pc, debugBuild, input, bytecode, position, stack, stackMax,
          result, out, trace, args>>

----------------------------------------------------------------------------
(* Bounds of the model *)

IntBits == 15        \* width of the model's Value::Int
MaxLen == 3          \* longest exhaustively enumerated input line
StackScale == 3      \* the operand stack capacity standing for the shell's 32
MaxProg == 3         \* longest raw bytecode program, in instructions
MaxDepth == 3        \* largest Stack.max of the Stack specification

----------------------------------------------------------------------------
(* value.rs: Value *)

IntMin == -(2 ^ (IntBits - 1))
IntMax == (2 ^ (IntBits - 1)) - 1
Modulus == 2 ^ IntBits

Abs(x) == IF x < 0 THEN -x ELSE x
Sgn(x) == IF x < 0 THEN -1 ELSE IF x > 0 THEN 1 ELSE 0

RECURSIVE GCD(_, _)
GCD(a, b) == IF b = 0 THEN a ELSE GCD(b, a % b)

ValueInt(v) == [tag |-> "Int", n |-> v, d |-> 1]

\* the f64 denoting p/q, q # 0
ValueFloat(p, q) ==
    LET g == GCD(Abs(p), Abs(q))
    IN  [tag |-> "Float", n |-> (Sgn(q) * p) \div g, d |-> Abs(q) \div g]

NaN == [tag |-> "Float", n |-> 0, d |-> 0]
Inf(s) == [tag |-> "Float", n |-> (IF s < 0 THEN -1 ELSE 1), d |-> 0]

Panic(m) == [tag |-> "Panic", msg |-> m]
IsPanic(r) == r.tag = "Panic"
IsInt(v) == v.tag = "Int"
IsFloat(v) == v.tag = "Float"
IsNaN(f) == f.d = 0 /\ f.n = 0
IsInf(f) == f.d = 0 /\ f.n # 0

\* `a as f64`
AsF64(a) == ValueFloat(a, 1)

\* i64 arithmetic: overflow panics with overflow checks on and wraps otherwise
Wrap(x) == ((x - IntMin) % Modulus) + IntMin
IntResult(x, msg) ==
    IF x \in IntMin..IntMax THEN ValueInt(x)
    ELSE IF debugBuild THEN Panic(msg)
    ELSE ValueInt(Wrap(x))

\* a division that rounds toward minus infinity
FloorDiv(a, b) ==
    IF b > 0 THEN a \div b ELSE IF b < 0 THEN (-a) \div (-b) ELSE 0

\* i64 `/` and `%` truncate toward zero
TruncDiv(a, b) == Sgn(a) * Sgn(b) * (Abs(a) \div Abs(b))
TruncRem(a, b) == a - (b * TruncDiv(a, b))

IntDiv(a, b) ==
    IF b = 0 THEN Panic("attempt to divide by zero")
    ELSE IF a = IntMin /\ b = -1 THEN Panic("attempt to divide with overflow")
    ELSE ValueInt(TruncDiv(a, b))

IntRem(a, b) ==
    IF b = 0 THEN Panic("attempt to calculate the remainder with a divisor of zero")
    ELSE IF a = IntMin /\ b = -1 THEN Panic("attempt to calculate the remainder with overflow")
    ELSE ValueInt(TruncRem(a, b))

\* f64 arithmetic (IEEE-754 special cases, exact otherwise)
FNeg(a) == [a EXCEPT !.n = -a.n]

FAdd(a, b) ==
    IF IsNaN(a) \/ IsNaN(b) THEN NaN
    ELSE IF IsInf(a) /\ IsInf(b) THEN (IF a.n = b.n THEN a ELSE NaN)
    ELSE IF IsInf(a) THEN a
    ELSE IF IsInf(b) THEN b
    ELSE ValueFloat((a.n * b.d) + (b.n * a.d), a.d * b.d)

FSub(a, b) == FAdd(a, FNeg(b))

FMul(a, b) ==
    IF IsNaN(a) \/ IsNaN(b) THEN NaN
    ELSE IF IsInf(a) \/ IsInf(b)
         THEN (IF a.n = 0 \/ b.n = 0 THEN NaN ELSE Inf(Sgn(a.n) * Sgn(b.n)))
    ELSE ValueFloat(a.n * b.n, a.d * b.d)

FDiv(a, b) ==
    IF IsNaN(a) \/ IsNaN(b) THEN NaN
    ELSE IF IsInf(a) THEN (IF IsInf(b) THEN NaN
                           ELSE Inf(a.n * (IF b.n < 0 THEN -1 ELSE 1)))
    ELSE IF IsInf(b) THEN ValueFloat(0, 1)
    ELSE IF b.n = 0 THEN (IF a.n = 0 THEN NaN ELSE Inf(a.n))
    ELSE ValueFloat(a.n * b.d, a.d * b.n)

FRem(a, b) ==
    IF IsNaN(a) \/ IsNaN(b) \/ IsInf(a) THEN NaN
    ELSE IF IsInf(b) THEN a
    ELSE IF b.n = 0 THEN NaN
    ELSE LET q == TruncDiv(a.n * b.d, a.d * b.n)
         IN  FSub(a, FMul(ValueFloat(q, 1), b))

\* impl Add / Sub / Mul / Div / Rem for Value
add(lhs, rhs) ==
    CASE IsInt(lhs) /\ IsInt(rhs) -> IntResult(lhs.n + rhs.n, "attempt to add with overflow")
      [] IsFloat(lhs) /\ IsFloat(rhs) -> FAdd(lhs, rhs)
      [] IsInt(lhs) /\ IsFloat(rhs) -> FAdd(AsF64(lhs.n), rhs)
      [] IsFloat(lhs) /\ IsInt(rhs) -> FAdd(lhs, AsF64(rhs.n))

sub(lhs, rhs) ==
    CASE IsInt(lhs) /\ IsInt(rhs) -> IntResult(lhs.n - rhs.n, "attempt to subtract with overflow")
      [] IsFloat(lhs) /\ IsFloat(rhs) -> FSub(lhs, rhs)
      [] IsInt(lhs) /\ IsFloat(rhs) -> FSub(AsF64(lhs.n), rhs)
      [] IsFloat(lhs) /\ IsInt(rhs) -> FSub(lhs, AsF64(rhs.n))

mul(lhs, rhs) ==
    CASE IsInt(lhs) /\ IsInt(rhs) -> IntResult(lhs.n * rhs.n, "attempt to multiply with overflow")
      [] IsFloat(lhs) /\ IsFloat(rhs) -> FMul(lhs, rhs)
      [] IsInt(lhs) /\ IsFloat(rhs) -> FMul(AsF64(lhs.n), rhs)
      [] IsFloat(lhs) /\ IsInt(rhs) -> FMul(lhs, AsF64(rhs.n))

div(lhs, rhs) ==
    CASE IsInt(lhs) /\ IsInt(rhs) -> IntDiv(lhs.n, rhs.n)
      [] IsFloat(lhs) /\ IsFloat(rhs) -> FDiv(lhs, rhs)
      [] IsInt(lhs) /\ IsFloat(rhs) -> FDiv(AsF64(lhs.n), rhs)
      [] IsFloat(lhs) /\ IsInt(rhs) -> FDiv(lhs, AsF64(rhs.n))

rem(lhs, rhs) ==
    CASE IsInt(lhs) /\ IsInt(rhs) -> IntRem(lhs.n, rhs.n)
      [] IsFloat(lhs) /\ IsFloat(rhs) -> FRem(lhs, rhs)
      [] IsInt(lhs) /\ IsFloat(rhs) -> FRem(AsF64(lhs.n), rhs)
      [] IsFloat(lhs) /\ IsInt(rhs) -> FRem(lhs, AsF64(rhs.n))

----------------------------------------------------------------------------
(* value.rs: the 9-byte encoding *)

\* Value::size
size(value) == 9

\* the bytes of an i64 least significant first
le_byte(v, i) ==
    IF i >= 4 THEN (IF v < 0 THEN 255 ELSE 0)
    ELSE (v \div (2 ^ (8 * (i - 1)))) % 256

\* i64::to_be_bytes, byte i of 8 (1 is the most significant); |v| < 2^23
be_byte(v, i) ==
    IF i <= 5 THEN (IF v < 0 THEN 255 ELSE 0)
    ELSE (v \div (2 ^ (8 * (8 - i)))) % 256

\* floor(log2(n/d)) for n, d > 0
RECURSIVE Log2Floor(_, _)
Log2Floor(n, d) ==
    IF n >= 2 * d THEN Log2Floor(n, 2 * d) + 1
    ELSE IF n < d THEN Log2Floor(2 * n, d) - 1
    ELSE 0

\* the next k binary digits of the fraction r/dd (0 <= r < dd), as a number
Digit(r, dd, k) == (r * (2 ^ k)) \div dd
\* and the remainder they leave
Rest(r, dd, k) == (r * (2 ^ k)) % dd

\* f64::to_be_bytes: sign, 11-bit biased exponent, 52-bit fraction.  Defined
\* on the values an f64 holds exactly, on the infinities and on the NaN
\* (0x7ff8000000000000, the NaN of f64::NAN).
f64_to_be_bytes(f) ==
    IF IsNaN(f) THEN <<127, 248, 0, 0, 0, 0, 0, 0>>
    ELSE IF IsInf(f) THEN <<(IF f.n < 0 THEN 255 ELSE 127), 240, 0, 0, 0, 0, 0, 0>>
    ELSE IF f.n = 0 THEN <<0, 0, 0, 0, 0, 0, 0, 0>>
    ELSE LET s == IF f.n < 0 THEN 1 ELSE 0
             m == Abs(f.n)
             e == Log2Floor(m, f.d)
             nn == IF e < 0 THEN m * (2 ^ (-e)) ELSE m
             dd == IF e < 0 THEN f.d ELSE f.d * (2 ^ e)
             be == e + 1023
             r0 == nn - dd
             r1 == Rest(r0, dd, 4)
             r2 == Rest(r1, dd, 8)
             r3 == Rest(r2, dd, 8)
             r4 == Rest(r3, dd, 8)
             r5 == Rest(r4, dd, 8)
             r6 == Rest(r5, dd, 8)
         IN  CASE Rest(r6, dd, 8) = 0 ->
                  << (s * 128) + (be \div 16),
                     ((be % 16) * 16) + Digit(r0, dd, 4),
                     Digit(r1, dd, 8), Digit(r2, dd, 8), Digit(r3, dd, 8),
                     Digit(r4, dd, 8), Digit(r5, dd, 8), Digit(r6, dd, 8) >>

\* Value::to_vec
to_vec(value) ==
    IF IsInt(value)
    THEN <<0>> \o [i \in 1..8 |-> be_byte(value.n, i)]
    ELSE <<1>> \o f64_to_be_bytes(value)

\* i64::from_be_bytes of b[2..9]; values below 2^24 in magnitude
i64_from_be_bytes(b) ==
    LET low == (b[7] * 65536) + (b[8] * 256) + b[9]
    IN  CASE \A i \in 2..6 : b[i] = 0 -> low
          [] \A i \in 2..6 : b[i] = 255 -> low - 16777216

\* f64::from_be_bytes of b[2..9]; fractions of at most 20 significant bits
f64_from_be_bytes(b) ==
    LET s == IF b[2] >= 128 THEN -1 ELSE 1
        be == ((b[2] % 128) * 16) + (b[3] \div 16)
        top == ((b[3] % 16) * 65536) + (b[4] * 256) + b[5]
        low0 == \A i \in 6..9 : b[i] = 0
    IN  CASE be = 2047 -> (IF top = 0 /\ low0 THEN Inf(s) ELSE NaN)
          [] be = 0 /\ top = 0 /\ low0 -> ValueFloat(0, 1)
          [] be \in 1..2046 /\ low0 ->
                LET e == be - 1023
                    sig == 1048576 + top
                    g == GCD(sig, 1048576)
                    n0 == sig \div g
                    d0 == 1048576 \div g
                IN  IF e >= 0 THEN ValueFloat(s * n0 * (2 ^ e), d0)
                    ELSE ValueFloat(s * n0, d0 * (2 ^ (-e)))

\* impl From<&[u8]> for Value
Value_from(bytes) ==
    IF Len(bytes) = 0 THEN Panic("index out of bounds")
    ELSE IF bytes[1] = 0 THEN
        IF Len(bytes) < 9
        THEN (IF debugBuild THEN Panic("invalid byte length")
              ELSE Panic("range end index 9 out of range for slice"))
        ELSE ValueInt(i64_from_be_bytes(bytes))
    ELSE IF bytes[1] = 1 THEN
        IF Len(bytes) < 9 THEN Panic("range end index 9 out of range for slice")
        ELSE f64_from_be_bytes(bytes)
    ELSE Panic("invalid value type")

----------------------------------------------------------------------------
(* opcode.rs: Opcode *)

Literal == 0
Addition == 1
Subtract == 2
Multiply == 3
Divide == 4
Modulo == 5
Return == 6
Factorial == 7

Opcodes == {Literal, Addition, Subtract, Multiply, Divide, Modulo, Return, Factorial}

\* compiler.rs:102 writes `Opcode::Sqrt as u8`, a variant the enum of
\* opcode.rs does not declare.  Whatever code a build gives it, it is a byte
\* distinct from the eight declared codes.
SqrtCodes == {8, 255}

\* impl From<u8> for Opcode
Opcode_from(value) ==
    IF value \in Opcodes THEN [tag |-> "Opcode", code |-> value]
    ELSE Panic("invalid opcode")

----------------------------------------------------------------------------
(* stack.rs: Stack *)

\* a push whose bound is one short: it refuses the last free slot
push_one_short(data, max, value) ==
    IF Len(data) + 1 < max THEN [tag |-> "Ok", data |-> Append(data, value)]
    ELSE Panic("stack overflow")

\* Stack::push: the new data, or the panic of the failed assertion
push(data, max, value) ==
    IF Len(data) < max THEN [tag |-> "Ok", data |-> Append(data, value)]
    ELSE Panic("stack overflow")

\* a pop that hands out the top value and keeps it stored
pop_keep(data) ==
    IF data # <<>>
    THEN [tag |-> "Ok", value |-> data[Len(data)], data |-> data]
    ELSE Panic("stack underflow")

\* Stack::pop: the popped value and the new data, or the panic
pop(data) ==
    IF data # <<>>
    THEN [tag |-> "Ok", value |-> data[Len(data)], data |-> SubSeq(data, 1, Len(data) - 1)]
    ELSE Panic("stack underflow")

----------------------------------------------------------------------------
(* compiler.rs: the parser (nom combinators over the text) *)

Digits == <<"0", "1", "2", "3", "4", "5", "6", "7", "8", "9">>
IsDigit(c) == \E i \in 1..10 : Digits[i] = c
DigitOf(c) == (CHOOSE i \in 1..10 : Digits[i] = c) - 1
Whitespace == {" "}
BinaryOperators == {"+", "-", "*", "/", "%"}
UnaryOperators == {"!", "sqrt"}

Drop(s, k) == SubSeq(s, k + 1, Len(s))
StartsWith(s, cs) == s # <<>> /\ s[1] \in cs

Fail == [ok |-> FALSE]
Parsed(rest, ast) == [ok |-> TRUE, rest |-> rest, ast |-> ast]

\* Expr
Number(value) == [k |-> "Number", v |-> value]
BinOp(left, o, right) == [k |-> "BinOp", l |-> left, op |-> o, r |-> right]
UnaryOp(o, e) == [k |-> "UnaryOp", op |-> o, e |-> e]

\* multispace0
RECURSIVE multispace0(_)
multispace0(s) == IF StartsWith(s, Whitespace) THEN multispace0(Tail(s)) ELSE s

\* digit1: the length of the leading run of digits (0: digit1 fails)
RECURSIVE DigitRun(_)
DigitRun(s) == IF s # <<>> /\ IsDigit(s[1]) THEN 1 + DigitRun(Tail(s)) ELSE 0

\* the number written by the digits s[1..k]
RECURSIVE DigitsVal(_, _)
DigitsVal(s, k) == IF k = 0 THEN 0 ELSE (10 * DigitsVal(s, k - 1)) + DigitOf(s[k])

\* number: a float literal (-? digits . digits) or else an integer literal
\* (-? digits); str::parse::<i64> rejects a literal outside the integer range
number(s) ==
    LET neg == StartsWith(s, {"-"})
        s1 == IF neg THEN Tail(s) ELSE s
        k == DigitRun(s1)
        s2 == Drop(s1, k)
        m == IF StartsWith(s2, {"."}) THEN DigitRun(Tail(s2)) ELSE 0
        sign == IF neg THEN -1 ELSE 1
        ip == DigitsVal(s1, k)
    IN  IF k = 0 THEN Fail
        ELSE IF m > 0
        THEN Parsed(Drop(s2, m + 1),
                    Number(ValueFloat(sign * ((ip * (10 ^ m)) + DigitsVal(Tail(s2), m)),
                                      10 ^ m)))
        ELSE IF sign * ip \in IntMin..IntMax
        THEN Parsed(s2, Number(ValueInt(sign * ip)))
        ELSE Fail

RECURSIVE expr(_), term(_), parens(_), fold_many0(_, _)

\* parens: '(' multispace0 expr multispace0 ')'
parens(s) ==
    IF ~StartsWith(s, {"("}) THEN Fail
    ELSE LET e == expr(multispace0(Tail(s)))
         IN  IF ~e.ok THEN Fail
             ELSE LET s1 == multispace0(e.rest)
                  IN  IF StartsWith(s1, {")"}) THEN Parsed(Tail(s1), e.ast) ELSE Fail

\* term: multispace0 (number | parens) multispace0, then an optional
\* postfix unary operator
term(s) ==
    LET s0 == multispace0(s)
        n == number(s0)
        num == IF n.ok THEN n ELSE parens(s0)
    IN  IF ~num.ok THEN Fail
        ELSE LET s1 == multispace0(num.rest)
             IN  IF StartsWith(s1, UnaryOperators)
                 THEN Parsed(Tail(s1), UnaryOp(s1[1], num.ast))
                 ELSE Parsed(s1, num.ast)

\* op: multispace0 one_of("+-*/%") multispace0
op(s) ==
    LET s0 == multispace0(s)
    IN  IF StartsWith(s0, BinaryOperators)
        THEN [ok |-> TRUE, rest |-> multispace0(Tail(s0)), c |-> s0[1]]
        ELSE Fail

\* a fold that takes everything after the operator as the right operand
fold_right(s, acc) ==
    LET o == op(s)
    IN  IF ~o.ok THEN Parsed(s, acc)
        ELSE LET e == expr(o.rest)
             IN  IF ~e.ok THEN Parsed(s, acc)
                 ELSE Parsed(e.rest, BinOp(acc, o.c, e.ast))

\* fold_many0(pair(op, term), init, BinOp): stops, keeping the input it had,
\* at the first (op, term) pair that does not parse
fold_many0(s, acc) ==
    LET o == op(s)
    IN  IF ~o.ok THEN Parsed(s, acc)
        ELSE LET t == term(o.rest)
             IN  IF ~t.ok THEN Parsed(s, acc)
                 ELSE fold_many0(t.rest, BinOp(acc, o.c, t.ast))

\* expr: term (op term)*
expr(s) ==
    LET initial == term(s)
    IN  IF ~initial.ok THEN Fail ELSE fold_many0(initial.rest, initial.ast)

----------------------------------------------------------------------------
(* compiler.rs: the compiler *)

BinaryOpcode(o) ==
    CASE o = "+" -> Addition
      [] o = "-" -> Subtract
      [] o = "*" -> Multiply
      [] o = "/" -> Divide
      [] o = "%" -> Modulo

\* compile_expr: post-order emission; sqrtCode is the byte of Opcode::Sqrt
RECURSIVE compile_expr(_, _)
compile_expr(e, sqrtCode) ==
    CASE e.k = "Number" -> <<Literal>> \o to_vec(e.v)
      [] e.k = "UnaryOp" /\ e.op = "!" -> compile_expr(e.e, sqrtCode) \o <<Factorial>>
      [] e.k = "UnaryOp" /\ e.op = "sqrt" -> compile_expr(e.e, sqrtCode) \o <<sqrtCode>>
      [] e.k = "BinOp" ->
            compile_expr(e.l, sqrtCode) \o compile_expr(e.r, sqrtCode)
                \o <<BinaryOpcode(e.op)>>

\* a compile that leaves out the closing Return
compile_without_return(text, sqrtCode) ==
    LET parsed == expr(text)
    IN  IF ~parsed.ok THEN [tag |-> "Err", msg |-> "Failed to parse expression"]
        ELSE [tag |-> "Ok", code |-> compile_expr(parsed.ast, sqrtCode)]

\* compile: Ok(bytecode) or Err("Failed to parse expression")
compile(text, sqrtCode) ==
    LET parsed == expr(text)
    IN  IF ~parsed.ok THEN [tag |-> "Err", msg |-> "Failed to parse expression"]
        ELSE [tag |-> "Ok", code |-> compile_expr(parsed.ast, sqrtCode) \o <<Return>>]

----------------------------------------------------------------------------
(* vm.rs: Vm *)

\* the closures Vm::run passes to execute_binary_op, by opcode
binary_op(code, lhs, rhs) ==
    CASE code = Addition -> add(lhs, rhs)
      [] code = Subtract -> sub(lhs, rhs)
      [] code = Multiply -> mul(lhs, rhs)
      [] code = Divide -> div(lhs, rhs)
      [] code = Modulo -> rem(lhs, rhs)

\* a panic raised after the instruction's pops: the data the pops left
PanicAfter(p, data) == [tag |-> "Panic", msg |-> p.msg, data |-> data]

\* Vm::execute_binary_op: pop rhs, pop lhs, push op(lhs, rhs)
execute_binary_op(data, max, code) ==
    LET r == pop(data)
    IN  IF IsPanic(r) THEN r
        ELSE LET l == pop(r.data)
             IN  IF IsPanic(l) THEN PanicAfter(l, r.data)
                 ELSE LET v == binary_op(code, l.value, r.value)
                      IN  IF IsPanic(v) THEN PanicAfter(v, l.data)
                          ELSE push(l.data, max, v)

\* a product over the half-open range 1..n
RECURSIVE product_exclusive(_, _, _)
product_exclusive(acc, i, n) ==
    IF i >= n THEN ValueInt(acc)
    ELSE LET r == IntResult(acc * i, "attempt to multiply with overflow")
         IN  IF IsPanic(r) \/ r.n = 0 THEN r ELSE product_exclusive(r.n, i + 1, n)

\* (1..=n).product() continued from the factor i with the product acc so far
\* (a wrapped product that reached 0 stays 0)
RECURSIVE product(_, _, _)
product(acc, i, n) ==
    IF i > n THEN ValueInt(acc)
    ELSE LET r == IntResult(acc * i, "attempt to multiply with overflow")
         IN  IF IsPanic(r) \/ r.n = 0 THEN r ELSE product(r.n, i + 1, n)

\* the Opcode::Factorial arm of Vm::run
factorial(data, max) ==
    LET r == pop(data)
    IN  IF IsPanic(r) THEN r
        ELSE IF IsInt(r.value)
        THEN LET v == product(1, 1, r.value.n)
             IN  IF IsPanic(v) THEN PanicAfter(v, r.data) ELSE push(r.data, max, v)
        ELSE PanicAfter(Panic("invalid value type"), r.data)

Continue(pos, data) == [tag |-> "Continue", position |-> pos, data |-> data]

\* a Return arm that pops the result and lets the loop go on
return_and_go_on(data, p1) ==
    LET r == pop(data)
    IN  IF IsPanic(r) THEN r ELSE Continue(p1, r.data)

\* a Return arm that hands out the top value and leaves it on the stack
return_peek(data, p1) ==
    LET r == pop(data)
    IN  IF IsPanic(r) THEN r
        ELSE [tag |-> "Some", value |-> r.value, position |-> p1, data |-> data]

\* the Opcode::Return arm of Vm::run: return Some(self.stack.pop())
return_top(data, p1) ==
    LET r == pop(data)
    IN  IF IsPanic(r) THEN r
        ELSE [tag |-> "Some", value |-> r.value, position |-> p1, data |-> r.data]

\* one iteration of the loop of Vm::run, from cursor pos (0-based)
run_iteration(code, pos, data, max) ==
    IF ~(pos < Len(code)) THEN [tag |-> "None", position |-> pos, data |-> data]
    ELSE LET opcode == Opcode_from(code[pos + 1])
             p1 == pos + 1
         IN  IF IsPanic(opcode) THEN opcode
             ELSE CASE opcode.code = Literal ->
                         LET value == Value_from(Drop(code, p1))
                         IN  IF IsPanic(value) THEN value
                             ELSE LET r == push(data, max, value)
                                  IN  IF IsPanic(r) THEN r
                                      ELSE Continue(p1 + size(value), r.data)
                    [] opcode.code \in {Addition, Subtract, Multiply, Divide, Modulo} ->
                         LET r == execute_binary_op(data, max, opcode.code)
                         IN  IF IsPanic(r) THEN r ELSE Continue(p1, r.data)
                    [] opcode.code = Factorial ->
                         LET r == factorial(data, max)
                         IN  IF IsPanic(r) THEN r ELSE Continue(p1, r.data)
                    [] opcode.code = Return -> return_top(data, p1)

Unset == [tag |-> "Unset"]

\* Vm::new
Vm_new(code, stack_size) ==
    /\ bytecode' = code
    /\ stack' = <<>>
    /\ stackMax' = stack_size
    /\ position' = 0
    /\ trace' = <<>>

\* Vm::run, one loop iteration per step.  It ends with Some(value), with
\* None, or with a panic that unwinds out of run; the stack then holds what
\* the instruction had left of it when it panicked.
Run ==
    /\ pc = "run"
    /\ LET it == run_iteration(bytecode, position, stack, stackMax)
       IN  IF it.tag = "Continue"
           THEN /\ position' = it.position
                /\ stack' = it.data
                /\ trace' = Append(trace, position)
                /\ UNCHANGED <<pc, result>>
           ELSE IF IsPanic(it)
           THEN /\ pc' = "panicked"
                /\ result' = Panic(it.msg)
                /\ stack' = IF "data" \in DOMAIN it THEN it.data ELSE stack
                /\ trace' = Append(trace, position)
                /\ UNCHANGED position
           ELSE /\ pc' = "returned"
                /\ result' = [tag |-> it.tag,
                              value |-> IF it.tag = "Some" THEN it.value ELSE Unset]
                /\ position' = it.position
                /\ stack' = it.data
                /\ trace' = IF it.tag = "Some" THEN Append(trace, position) ELSE trace
    /\ UNCHANGED <<debugBuild, input, bytecode, stackMax, out, args>>

----------------------------------------------------------------------------
(* rmvd.rs: the interactive shell *)

\* the stack size evaluate gives its Vm: rmvd.rs:41 passes 32; the model
\* keeps the call and scales the capacity
ShellStackSize == StackScale

\* deepest generated parenthesis nesting: one past the first that overflows
MaxNest == ShellStackSize + 1

\* str::trim
RECURSIVE trim_end(_)
trim_end(s) ==
    IF s # <<>> /\ s[Len(s)] \in Whitespace THEN trim_end(SubSeq(s, 1, Len(s) - 1)) ELSE s
trim(s) == trim_end(multispace0(s))

\* u8::to_ascii_lowercase on the letters the input lines use
to_ascii_lowercase(c) ==
    CASE c = "E" -> "e" [] c = "X" -> "x" [] c = "I" -> "i" [] c = "T" -> "t"
      [] c = "Q" -> "q" [] c = "U" -> "u" [] OTHER -> c

eq_ignore_ascii_case(s, t) ==
    /\ Len(s) = Len(t)
    /\ \A i \in 1..Len(s) : to_ascii_lowercase(s[i]) = to_ascii_lowercase(t[i])

IsExitCommand(line) ==
    \/ eq_ignore_ascii_case(line, <<"e", "x", "i", "t">>)
    \/ eq_ignore_ascii_case(line, <<"q", "u", "i", "t">>)

\* The input lines of the model ------------------------------------------

\* every text of at most n characters over the alphabet cs
RECURSIVE Texts(_, _)
Texts(cs, n) ==
    IF n = 0 THEN {<<>>}
    ELSE LET shorter == Texts(cs, n - 1)
         IN  shorter \cup {Append(t, c) : t \in shorter, c \in cs}

ShortAlphabet == {"1", "2", "+", "-", "(", ")", " ", "!", "sqrt"}
ShortLines == Texts(ShortAlphabet, MaxLen)

\* "t1 op1 t2op2t3" for terms t1, t2, t3 and binary operators op1, op2
ChainTerms ==
    { <<"7">>, <<"-", "3">>, <<"2", ".", "5">>, <<"(", "1", "+", "2", ")">>,
      <<"3", "!">>, <<"4", "sqrt">> }
Chain(t1, o1, t2, o2, t3) == t1 \o <<" ", o1, " ">> \o t2 \o <<o2>> \o t3

\* "a o b" for literals a, b and a binary operator o
PairLiterals == { <<"7">>, <<"-", "3">>, <<"2">>, <<"0">>, <<"2", ".", "5">> }
PairLines ==
    { a \o <<" ", o, " ">> \o b :
        a \in PairLiterals, b \in PairLiterals, o \in BinaryOperators }

\* k nested parentheses, opening to the right "1+(1+(1+1))", to the left
\* "((1+1)+1)+1", or around a postfix operator "((1)!)!"
RightNest(k) ==
    [i \in 1..((4 * k) + 1) |->
        IF i > (3 * k) + 1 THEN ")"
        ELSE IF i % 3 = 1 THEN "1" ELSE IF i % 3 = 2 THEN "+" ELSE "("]
LeftNest(k) ==
    [i \in 1..((4 * k) + 1) |->
        IF i <= k THEN "("
        ELSE IF (i - k) % 3 = 1 THEN (IF i = k + 1 THEN "1" ELSE ")")
        ELSE IF (i - k) % 3 = 2 THEN "+" ELSE "1"]
UnaryNest(k) ==
    [i \in 1..((3 * k) + 1) |->
        IF i <= k THEN "("
        ELSE IF i = k + 1 THEN "1" ELSE IF (i - k) % 2 = 0 THEN ")" ELSE "!"]
NestLines ==
    UNION { {RightNest(k), LeftNest(k), UnaryNest(k)} : k \in 0..MaxNest }

ListedLines ==
    { <<"e", "x", "i", "t">>, <<"Q", "U", "I", "T">>, <<" ", "E", "x", "i", "t", " ">>,
      <<"e", "x", "i", "t", "1">>,
      <<"a", "b", "c">>, <<"1", " ", "+">>, <<"(", "1", " ", "+", " ", "2">>,
      <<"1", " ", "+", " ", "2", " ", "a", "b", "c">>,
      <<"1", ".">>, <<".", "5">>, <<"1", ".", "5", ".", "5">>, <<"-">>,
      <<"9", "9", "9", "9", "9", "9">>,
      <<"2", ".", "5", " ", "+", " ", "3">>, <<"5", " ", "+", " ", "-", "2", ".", "5">>,
      <<"2", " ", "*", " ", "(", "3", " ", "+", " ", "4", ")">>,
      <<"1", "0", " ", "/", " ", "2", ".", "5">>,
      <<"7", " ", "%", " ", "3">>, <<"-", "7", " ", "/", " ", "2">>,
      <<"1", " ", "/", " ", "0">>, <<"1", " ", "%", " ", "0">>,
      <<"2", ".", "5", "!">>, <<"5", "!">>, <<"0", "!">>, <<"-", "4", "!">>,
      <<"9", "!">>, <<"4", "sqrt">>, <<"2", " ", "*", " ", "1", "6", "sqrt">>,
      <<"6", "+", "6">>, <<"2", "5", "6", "+", "1", "5", "4", "2">> }

Lines == ShortLines \cup PairLines \cup NestLines \cup ListedLines

\* main --------------------------------------------------------------------

Idle ==
    /\ input = <<>>
    /\ bytecode = <<>>
    /\ position = 0
    /\ stack = <<>>
    /\ stackMax = 0
    /\ result = Unset
    /\ out = Unset
    /\ trace = <<>>

\* main, lines 8-23: read a line, trim it, leave on exit/quit, skip an
\* empty line
ReadLine ==
    /\ pc = "prompt"
    /\ \E line \in Lines :
          LET trimmed == trim(line)
          IN  IF IsExitCommand(trimmed)
              THEN pc' = "exited" /\ input' = trimmed
              ELSE IF trimmed = <<>>
              THEN pc' = "prompt" /\ input' = input
              ELSE pc' = "evaluate" /\ input' = trimmed
    /\ UNCHANGED <<debugBuild, bytecode, position, stack, stackMax, result, out,
                   trace, args>>

\* evaluate, lines 35-41: compile the line; on success build the Vm
Evaluate ==
    /\ pc = "evaluate"
    /\ \E sqrtCode \in SqrtCodes :
          LET compiled == compile(input, sqrtCode)
          IN  IF compiled.tag = "Err"
              THEN /\ result' = [tag |-> "Err", value |-> Unset]
                   /\ pc' = "returned"
                   /\ UNCHANGED <<bytecode, position, stack, stackMax, trace>>
              ELSE /\ Vm_new(compiled.code, ShellStackSize)
                   /\ pc' = "run"
                   /\ UNCHANGED result
    /\ UNCHANGED <<debugBuild, input, out, args>>

\* evaluate, line 42, and main, lines 26-29: print the value or the error
Report ==
    /\ pc = "returned"
    /\ out' = CASE result.tag = "Some" -> [tag |-> "stdout", value |-> result.value]
                [] result.tag = "None" ->
                     [tag |-> "stderr", value |-> "Failed to execute expression"]
                [] result.tag = "Err" ->
                     [tag |-> "stderr", value |-> "Failed to compile expression"]
    /\ pc' = "reported"
    /\ UNCHANGED <<debugBuild, input, bytecode, position, stack, stackMax, result,
                   trace, args>>

\* main, line 6: the next iteration of the loop; the Vm and the line of the
\* last iteration are gone
Prompt ==
    /\ pc = "reported"
    /\ pc' = "prompt"
    /\ input' = <<>>
    /\ bytecode' = <<>>
    /\ position' = 0
    /\ stack' = <<>>
    /\ stackMax' = 0
    /\ result' = Unset
    /\ out' = Unset
    /\ trace' = <<>>
    /\ UNCHANGED <<debugBuild, args>>

Init ==
    /\ pc = "prompt"
    /\ debugBuild \in BOOLEAN
    /\ args = Unset
    /\ Idle

Next == ReadLine \/ Evaluate \/ Run \/ Report \/ Prompt

Spec == Init /\ [][Next]_vars

----------------------------------------------------------------------------
(* The operations of Stack, called in any order on one stack *)

StackValues == {ValueInt(1), ValueInt(2), ValueFloat(5, 2)}

\* Stack::new(max)
InitStack ==
    /\ pc = "stack"
    /\ debugBuild \in BOOLEAN
    /\ args = Unset
    /\ input = <<>>
    /\ bytecode = <<>>
    /\ position = 0
    /\ stack = <<>>
    /\ stackMax \in 0..MaxDepth
    /\ result = Unset
    /\ out = Unset
    /\ trace = <<>>

\* a call of Stack::push; args records the call and the data it found
StackPush ==
    /\ pc = "stack"
    /\ \E value \in StackValues :
          LET r == push(stack, stackMax, value)
          IN  /\ args' = [op |-> "push", value |-> value, data |-> stack]
              /\ result' = IF IsPanic(r) THEN r ELSE [tag |-> "Ok"]
              /\ stack' = IF IsPanic(r) THEN stack ELSE r.data
    /\ UNCHANGED <<pc, debugBuild, input, bytecode, position, stackMax, out, trace>>

\* a call of Stack::pop
StackPop ==
    /\ pc = "stack"
    /\ LET r == pop(stack)
       IN  /\ args' = [op |-> "pop", data |-> stack]
           /\ result' = IF IsPanic(r) THEN r ELSE [tag |-> "Some", value |-> r.value]
           /\ stack' = IF IsPanic(r) THEN stack ELSE r.data
    /\ UNCHANGED <<pc, debugBuild, input, bytecode, position, stackMax, out, trace>>

NextStack == StackPush \/ StackPop

SpecStack == InitStack /\ [][NextStack]_vars

----------------------------------------------------------------------------
(* Vm::run on arbitrary byte streams *)

\* the bytes of raw programs, instruction by instruction: two literals (the
\* payload of the first ends with the byte of Return), operators, Return, a
\* byte that is no opcode and a literal of unknown type
Chunks ==
    { <<Literal>> \o to_vec(ValueInt(6)),
      <<Literal>> \o to_vec(ValueFloat(5, 2)),
      <<Addition>>, <<Factorial>>, <<Return>>, <<9>>,
      <<Literal, 2, 0, 0, 0, 0, 0, 0, 0, 0>> }

\* a last literal whose payload the stream cuts short
CutShort == { <<Literal>>, <<Literal, 0, 6>> }

RECURSIVE Whole(_)
Whole(n) ==
    IF n = 0 THEN {<<>>}
    ELSE LET shorter == Whole(n - 1)
         IN  shorter \cup { p \o c : p \in shorter, c \in Chunks }

\* the programs of at most MaxProg instructions
Programs ==
    Whole(MaxProg) \cup { p \o c : p \in Whole(MaxProg - 1), c \in CutShort }

\* Vm::new(bytecode, stack_size)
InitVm ==
    /\ pc = "run"
    /\ debugBuild \in BOOLEAN
    /\ args = Unset
    /\ input = <<>>
    /\ bytecode \in Programs
    /\ position = 0
    /\ stack = <<>>
    /\ stackMax \in 1..(MaxDepth - 1)
    /\ result = Unset
    /\ out = Unset
    /\ trace = <<>>

NextVm == Run

SpecVm == InitVm /\ [][NextVm]_vars

----------------------------------------------------------------------------
(* The binary operators of Value on chosen operands *)

OperandInts == {IntMin, -7, -2, -1, 0, 1, 2, 3, 7, IntMax}
Operands ==
    { ValueInt(n) : n \in OperandInts }
        \cup { ValueFloat(5, 2), ValueFloat(-5, 2), ValueFloat(0, 1), ValueFloat(3, 1),
               ValueFloat(1, 2) }

\* the Value operation a binary operator stands for (compile_expr maps the
\* operator to its opcode, Vm::run the opcode to the operation)
ApplyOperator(o, lhs, rhs) == binary_op(BinaryOpcode(o), lhs, rhs)

InitValue ==
    /\ pc = "operands"
    /\ debugBuild \in BOOLEAN
    /\ args \in [op : BinaryOperators, lhs : Operands, rhs : Operands]
    /\ Idle

\* lhs op rhs
Apply ==
    /\ pc = "operands"
    /\ result' = ApplyOperator(args.op, args.lhs, args.rhs)
    /\ pc' = "applied"
    /\ UNCHANGED <<debugBuild, input, bytecode, position, stack, stackMax, out, trace,
                   args>>

NextValue == Apply

SpecValue == InitValue /\ [][NextValue]_vars

----------------------------------------------------------------------------
(* evaluate on the lines "t1 op1 t2op2t3" *)

InitChain ==
    /\ pc = "evaluate"
    /\ debugBuild \in BOOLEAN
    /\ args \in [t1 : ChainTerms, o1 : BinaryOperators, t2 : ChainTerms,
                 o2 : BinaryOperators, t3 : ChainTerms]
    /\ input = Chain(args.t1, args.o1, args.t2, args.o2, args.t3)
    /\ bytecode = <<>>
    /\ position = 0
    /\ stack = <<>>
    /\ stackMax = 0
    /\ result = Unset
    /\ out = Unset
    /\ trace = <<>>

NextChain == Evaluate \/ Run \/ Report

SpecChain == InitChain /\ [][NextChain]_vars

----------------------------------------------------------------------------
(* Vm::run on the programs Literal .., Literal n, Factorial, Return *)

\* Int operands up to 12, whose factorial a 32-bit integer holds, and Float
\* operands
FactorialOperands ==
    { ValueInt(n) : n \in {IntMin, -3, -1, 0, 1, 2, 3, 5, 7, 8, 10, 12} }
        \cup { ValueFloat(5, 2), ValueFloat(3, 1), ValueFloat(0, 1) }

\* the values pushed before the operand
FactorialBelow == { <<>>, <<ValueInt(6)>> }

RECURSIVE LiteralsOf(_)
LiteralsOf(values) ==
    IF values = <<>> THEN <<>>
    ELSE <<Literal>> \o to_vec(Head(values)) \o LiteralsOf(Tail(values))

\* Vm::new(bytecode, stack_size); args records what the program pushes
InitFactorial ==
    /\ pc = "run"
    /\ debugBuild \in BOOLEAN
    /\ args \in [below : FactorialBelow, operand : FactorialOperands]
    /\ input = <<>>
    /\ bytecode = LiteralsOf(Append(args.below, args.operand)) \o <<Factorial, Return>>
    /\ position = 0
    /\ stack = <<>>
    /\ stackMax \in 1..(MaxDepth - 1)
    /\ result = Unset
    /\ out = Unset
    /\ trace = <<>>

NextFactorial == Run

SpecFactorial == InitFactorial /\ [][NextFactorial]_vars

----------------------------------------------------------------------------
(* Value::to_vec and Value::from on chosen values and payloads *)

EncodedInts ==
    (-130..130) \cup {IntMin, IntMin + 1, IntMax, 255, 256, 257, -255, -256, -257, 1542}
EncodedValues ==
    { ValueInt(n) : n \in EncodedInts }
        \cup { ValueFloat(n, d) : n \in -40..40, d \in {1, 2, 4, 8, 16} }
        \cup { Inf(1), Inf(-1), NaN }

\* payloads of every type tag but 0 and 1
UntypedPayloads == { <<t, 0, 0, 0, 0, 0, 0, 0, b>> : t \in 2..255, b \in {0, 6} }

\* a value to encode, or a payload to decode
InitEncoding ==
    /\ debugBuild \in BOOLEAN
    /\ \/ pc = "value" /\ args \in [value : EncodedValues] /\ bytecode = <<>>
       \/ pc = "payload" /\ args = Unset /\ bytecode \in UntypedPayloads
    /\ input = <<>>
    /\ position = 0
    /\ stack = <<>>
    /\ stackMax = 0
    /\ result = Unset
    /\ out = Unset
    /\ trace = <<>>

\* value.to_vec()
Encode ==
    /\ pc = "value"
    /\ bytecode' = to_vec(args.value)
    /\ pc' = "payload"
    /\ UNCHANGED <<debugBuild, input, position, stack, stackMax, result, out, trace, args>>

\* Value::from(&bytes[..])
Decode ==
    /\ pc = "payload"
    /\ result' = Value_from(bytecode)
    /\ pc' = "decoded"
    /\ UNCHANGED <<debugBuild, input, bytecode, position, stack, stackMax, out, trace,
                   args>>

NextEncoding == Encode \/ Decode

SpecEncoding == InitEncoding /\ [][NextEncoding]_vars

----------------------------------------------------------------------------
(* Vm::run called again and again on one Vm holding a compiled line *)

\* calls of run on one Vm
MaxRuns == 3

\* the lines that compile
CompiledLines ==
    { l \in { trim(line) : line \in Lines } :
        l # <<>> /\ compile(l, CHOOSE c \in SqrtCodes : TRUE).tag = "Ok" }

\* Vm::new(compile(line), stack_size), about to run for the first time;
\* args.returned lists what the earlier calls of run returned
InitRerun ==
    /\ pc = "run"
    /\ debugBuild \in BOOLEAN
    /\ args = [returned |-> <<>>]
    /\ input \in CompiledLines
    /\ \E sqrtCode \in SqrtCodes : bytecode = compile(input, sqrtCode).code
    /\ position = 0
    /\ stack = <<>>
    /\ stackMax \in 1..MaxNest
    /\ result = Unset
    /\ out = Unset
    /\ trace = <<>>

\* the next call of run on the same Vm: its cursor is a local that starts
\* at 0, its stack is the field the last call left
RunAgain ==
    /\ pc = "returned"
    /\ Len(args.returned) + 1 < MaxRuns
    /\ args' = [returned |-> Append(args.returned, result)]
    /\ pc' = "run"
    /\ position' = 0
    /\ result' = Unset
    /\ trace' = <<>>
    /\ UNCHANGED <<debugBuild, input, bytecode, stack, stackMax, out>>

NextRerun == Run \/ RunAgain

SpecRerun == InitRerun /\ [][NextRerun]_vars

----------------------------------------------------------------------------
(* Reference notions the properties are stated with *)

\* the outcome of an evaluation that ended: the value run returned, or the
\* panic that ended it
Outcome == IF pc = "panicked" THEN result ELSE result.value

\* the tree of the line under evaluation
Ast == expr(input).ast

\* a Float the model does not compute: a square root
SomeFloat == [tag |-> "Float", sqrt |-> TRUE]
IsSomeFloat(v) == v.tag = "Float" /\ "sqrt" \in DOMAIN v

\* the value of a tree, evaluated recursively: a literal is its value, a
\* unary node applies its operator to the value of its operand, a binary
\* node applies its operator to the values of its left and right operands
RECURSIVE Eval(_)
Eval(e) ==
    CASE e.k = "Number" -> e.v
      [] e.k = "UnaryOp" ->
            LET v == Eval(e.e)
            IN  IF IsPanic(v) THEN v
                ELSE IF e.op = "sqrt" THEN SomeFloat
                ELSE IF IsInt(v) THEN product(1, 1, v.n)
                ELSE Panic("invalid value type")
      [] e.k = "BinOp" ->
            LET l == Eval(e.l)
                r == Eval(e.r)
            IN  IF IsPanic(l) THEN l
                ELSE IF IsPanic(r) THEN r
                ELSE IF IsSomeFloat(l) \/ IsSomeFloat(r) THEN SomeFloat
                ELSE ApplyOperator(e.op, l, r)

RECURSIVE HasSqrt(_)
HasSqrt(e) ==
    CASE e.k = "Number" -> FALSE
      [] e.k = "UnaryOp" -> e.op = "sqrt" \/ HasSqrt(e.e)
      [] e.k = "BinOp" -> HasSqrt(e.l) \/ HasSqrt(e.r)

\* the number of nodes of a tree
RECURSIVE Nodes(_)
Nodes(e) ==
    CASE e.k = "Number" -> 1
      [] e.k = "UnaryOp" -> 1 + Nodes(e.e)
      [] e.k = "BinOp" -> 1 + Nodes(e.l) + Nodes(e.r)

\* the number of operands the evaluation of a tree holds at once: the right
\* operand of a binary node is evaluated above the value of the left one
RECURSIVE OperandDepth(_)
OperandDepth(e) ==
    CASE e.k = "Number" -> 1
      [] e.k = "UnaryOp" -> OperandDepth(e.e)
      [] e.k = "BinOp" ->
            LET l == OperandDepth(e.l)
                r == 1 + OperandDepth(e.r)
            IN  IF l > r THEN l ELSE r

\* the cursor positions (0-based) of the opcode bytes of a byte stream read
\* from position p on: an opcode byte, then 9 payload bytes after a Literal
RECURSIVE InstructionStarts(_, _)
InstructionStarts(code, p) ==
    IF p >= Len(code) THEN {}
    ELSE {p} \cup InstructionStarts(code, p + (IF code[p + 1] = Literal THEN 10 ELSE 1))

\* evaluate compiled the line and built the Vm
Compiled == pc \in {"run", "returned", "panicked"} /\ bytecode # <<>>

----------------------------------------------------------------------------
(* Properties *)

\* C1: when the run of the bytecode compiled from a line ends, its outcome is
\* the value of the line's tree evaluated recursively (Eval): literals yield
\* their value, unary nodes apply their operator, BinOp(l, o, r) yields
\* value(l) o value(r).
C1_RunYieldsValueOfTree ==
    (Compiled /\ pc # "run") => Outcome = Eval(Ast)

\* The same on the lines without a square root whose tree needs no more
\* operands at once than the stack holds.
RunYieldsValueOfTreeWithoutSqrt ==
    (Compiled /\ pc # "run" /\ ~HasSqrt(Ast) /\ OperandDepth(Ast) <= stackMax)
        => Outcome = Eval(Ast)

\* "-7 / 2" returned -3: the left operand is the dividend
C1_Witness ==
    /\ pc = "returned"
    /\ input = <<"-", "7", " ", "/", " ", "2">>
    /\ result = [tag |-> "Some", value |-> ValueInt(-3)]

\* C2: compile produces bytecode only for a line that is, as a whole, an
\* expression of the grammar: the parse leaves no text over.
C2_CompileRejectsIncompleteText ==
    Compiled => expr(input).rest = <<>>

C4_StackWithinBounds ==
    /\ Len(stack) \in 0..stackMax
    /\ (args # Unset /\ args.op = "push") =>
          IF Len(args.data) >= stackMax
          THEN result = Panic("stack overflow") /\ stack = args.data
          ELSE result = [tag |-> "Ok"] /\ stack = Append(args.data, args.value)
    /\ (args # Unset /\ args.op = "pop") =>
          IF args.data = <<>>
          THEN result = Panic("stack underflow") /\ stack = <<>>
          ELSE /\ result = [tag |-> "Some", value |-> args.data[Len(args.data)]]
               /\ args.data = Append(stack, result.value)

\* a push on a full, non-empty stack panicked and the values are still there
C4_Witness ==
    /\ pc = "stack"
    /\ args # Unset
    /\ args.op = "push"
    /\ result = Panic("stack overflow")
    /\ Len(stack) = stackMax
    /\ stackMax > 1

\* C5: the bytecode compile returns reads as a sequence of instructions, an
\* opcode byte followed by a whole 9-byte payload exactly after Literal; there
\* is one instruction per node of the tree and then exactly one Return
\* instruction, which is the last byte.
C5_FlatInstructionsOneReturn ==
    Compiled =>
        LET starts == InstructionStarts(bytecode, 0)
        IN  /\ \A p \in starts :
                  bytecode[p + 1] = Literal =>
                      p + 10 <= Len(bytecode) /\ bytecode[p + 2] \in {0, 1}
            /\ { p \in starts : bytecode[p + 1] = Return } = {Len(bytecode) - 1}
            /\ Cardinality(starts) = Nodes(Ast) + 1
            /\ \A i \in 1..Len(trace) : trace[i] \in starts

\* "6+6" compiled: the payloads end with the byte of Return, which is no
\* instruction there
C5_Witness ==
    /\ pc = "run"
    /\ input = <<"6", "+", "6">>
    /\ Len(bytecode) = 22
    /\ bytecode[10] = Return
    /\ InstructionStarts(bytecode, 0) = {0, 10, 20, 21}

\* C6: every opcode byte of the bytecode compile returns, the Sqrt of the
\* postfix square root included, is a code the VM decodes.
C6_EmittedOpcodesDecode ==
    Compiled =>
        \A p \in InstructionStarts(bytecode, 0) : ~IsPanic(Opcode_from(bytecode[p + 1]))

\* the cursor position p holds a Return opcode byte
ReturnAt(p) == p < Len(bytecode) /\ bytecode[p + 1] = Return

\* C7: a step of run whose cursor is at a Return ends the run with the value
\* on top of the stack, popped; a step elsewhere ends the run in a result only
\* at the end of the byte stream, and then with None; once the run has ended
\* no instruction executes; no Return was dispatched before the last
\* instruction of a run.
C7_RunStopsAtFirstReturn ==
    [][ /\ (pc = "run" /\ ReturnAt(position)) =>
              IF stack # <<>>
              THEN /\ pc' = "returned"
                   /\ result' = [tag |-> "Some", value |-> stack[Len(stack)]]
                   /\ stack' = SubSeq(stack, 1, Len(stack) - 1)
                   /\ position' = position + 1
              ELSE pc' = "panicked" /\ result' = Panic("stack underflow")
        /\ (pc = "run" /\ ~ReturnAt(position)) =>
              /\ (pc' = "returned") <=> (position >= Len(bytecode))
              /\ (pc' = "returned") => result' = [tag |-> "None", value |-> Unset]
        /\ (pc # "run") => UNCHANGED vars
        /\ \A i \in 1..Len(trace') :
              ReturnAt(trace'[i]) => (i = Len(trace') /\ pc' # "run")
      ]_vars

\* the program Literal 6, Return, 9 returned 6 and left the byte after the
\* Return unread
C7_Witness ==
    /\ pc = "returned"
    /\ bytecode = <<Literal>> \o to_vec(ValueInt(6)) \o <<Return, 9>>
    /\ result = [tag |-> "Some", value |-> ValueInt(6)]
    /\ position = 11
    /\ trace = <<0, 10>>

\* C8: an evaluation that failed, by a syntax error or by a panic of the run,
\* leaves the shell at the point where it reports the error and goes on to
\* the next prompt.
C8_FailureEndsOnlyTheEvaluation ==
    (result.tag \in {"Err", "None", "Panic"}) => pc \in {"returned", "reported"}

\* the trees of the three terms of the line, each parsed alone
Term1 == expr(args.t1).ast
Term2 == expr(args.t2).ast
Term3 == expr(args.t3).ast
LeftGrouped == BinOp(BinOp(Term1, args.o1, Term2), args.o2, Term3)
RightGrouped == BinOp(Term1, args.o1, BinOp(Term2, args.o2, Term3))
\* the line with its left grouping written out: "(t1 op1 t2)op2t3"
LeftGroupedText ==
    <<"(">> \o args.t1 \o <<" ", args.o1, " ">> \o args.t2 \o <<")", args.o2>> \o args.t3

\* C9: the line "t1 op1 t2 op2 t3" parses, whole, to
\* BinOp(BinOp(t1, op1, t2), op2, t3), the tree of "(t1 op1 t2) op2 t3", for
\* every pair of operators; its evaluation ends as the recursive evaluation
\* of that tree does (on terms without a square root, which no run decodes).
C9_LeftAssociative ==
    /\ expr(input) = Parsed(<<>>, LeftGrouped)
    /\ expr(LeftGroupedText) = Parsed(<<>>, LeftGrouped)
    /\ (Compiled /\ pc # "run" /\ ~HasSqrt(LeftGrouped)) => Outcome = Eval(LeftGrouped)

\* "7 - -3*2.5" printed 25, the value of (7 - -3) * 2.5, not the 14.5 of
\* 7 - (-3 * 2.5)
C9_Witness ==
    /\ pc = "reported"
    /\ args.o1 = "-"
    /\ args.o2 = "*"
    /\ input = <<"7", " ", "-", " ", "-", "3", "*", "2", ".", "5">>
    /\ out = [tag |-> "stdout", value |-> ValueFloat(25, 1)]
    /\ Eval(RightGrouped) = ValueFloat(29, 2)

\* C10: lhs op rhs is an Int when both operands are Int, unless it panics,
\* and a Float when either is a Float; the Int quotient is the ratio truncated
\* toward zero, the Int remainder has the sign of the dividend, is smaller in
\* magnitude than the divisor and differs from the dividend by a multiple of
\* it; Int division and remainder by zero panic.
C10_ResultTypeAndIntegerRules ==
    pc = "applied" =>
        LET a == args.lhs
            b == args.rhs
            bothInt == IsInt(a) /\ IsInt(b)
        IN  /\ bothInt => (IsPanic(result) \/ IsInt(result))
            /\ ~bothInt => IsFloat(result)
            /\ (bothInt /\ args.op \in {"/", "%"}) =>
                  IF b.n = 0 THEN IsPanic(result)
                  ELSE IF a.n = IntMin /\ b.n = -1 THEN IsPanic(result)
                  ELSE IsInt(result)
            /\ (bothInt /\ args.op = "/" /\ IsInt(result)) =>
                  /\ Abs(result.n) * Abs(b.n) <= Abs(a.n)
                  /\ Abs(a.n) < (Abs(result.n) + 1) * Abs(b.n)
                  /\ result.n = 0 \/ Sgn(result.n) = Sgn(a.n) * Sgn(b.n)
            /\ (bothInt /\ args.op = "%" /\ IsInt(result)) =>
                  /\ Abs(result.n) < Abs(b.n)
                  /\ result.n = 0 \/ Sgn(result.n) = Sgn(a.n)
                  /\ Abs(a.n - result.n) % Abs(b.n) = 0

\* -7 / 2 gave the Int -3
C10_Witness ==
    /\ pc = "applied"
    /\ args = [op |-> "/", lhs |-> ValueInt(-7), rhs |-> ValueInt(2)]
    /\ result = ValueInt(-3)

\* the product of the integers from 1 up to n, 1 when there are none
RECURSIVE ProductUpTo(_)
ProductUpTo(n) == IF n <= 0 THEN 1 ELSE n * ProductUpTo(n - 1)

\* the instruction dispatched last is the Factorial of the program
FactorialDispatched ==
    /\ trace # <<>>
    /\ bytecode[trace[Len(trace)] + 1] = Factorial
    /\ trace[Len(trace)] = Len(bytecode) - 2

\* the Factorial instruction popped its operand and pushed the Int v
FactorialPushed(v) ==
    /\ pc = "run"
    /\ stack = Append(args.below, ValueInt(v))

\* the Factorial instruction popped its operand, panicked and pushed nothing
FactorialPanicked(msg) ==
    /\ pc = "panicked"
    /\ result = Panic(msg)
    /\ stack = args.below

\* C11 as stated: Factorial pops its operand and, for every Int operand n,
\* pushes the Int product of the integers from 1 up to n (1 for n <= 0); for a
\* Float operand it panics with the type error and pushes nothing.
C11_FactorialPushesProduct ==
    FactorialDispatched =>
        IF IsInt(args.operand)
        THEN FactorialPushed(ProductUpTo(args.operand.n))
        ELSE FactorialPanicked("invalid value type")

\* C11, amended: for an Int operand n whose product 1 * .. * n is an Int
\* (in particular n <= 0, product 1) Factorial pushes that product; for a
\* larger n it panics with the multiplication overflow and pushes nothing in
\* a build with overflow checks, and pushes the product wrapped to the width
\* of Int in a build without; for a Float operand it panics with the type
\* error and pushes nothing.
C11_FactorialPushesProductThatFits ==
    FactorialDispatched =>
        IF IsInt(args.operand)
        THEN LET p == ProductUpTo(args.operand.n)
             IN  IF p <= IntMax THEN FactorialPushed(p)
                 ELSE IF debugBuild
                 THEN FactorialPanicked("attempt to multiply with overflow")
                 ELSE FactorialPushed(Wrap(p))
        ELSE FactorialPanicked("invalid value type")

\* Factorial of -3 above a 6 pushed 1
C11_Witness ==
    /\ FactorialDispatched
    /\ args.operand = ValueInt(-3)
    /\ pc = "run"
    /\ stack = <<ValueInt(6), ValueInt(1)>>

\* the bytes b[2..9] are the 64-bit two's complement of v, most significant
\* byte first (|v| < 2^23: five bytes of sign, three of v modulo 2^24)
IsTwosComplementOf(b, v) ==
    /\ \A i \in 2..6 : b[i] = IF v < 0 THEN 255 ELSE 0
    /\ (b[7] * 65536) + (b[8] * 256) + b[9] = v % 16777216

\* the bytes b[2..9] are the IEEE-754 binary64 pattern of f, most significant
\* byte first: sign bit, biased exponent e, fraction (here of 20 bits); a
\* finite f other than 0 is sign * (1 + fraction / 2^20) * 2^(e - 1023)
IsBitPatternOf(b, f) ==
    LET sign == IF b[2] >= 128 THEN -1 ELSE 1
        e == ((b[2] % 128) * 16) + (b[3] \div 16)
        fraction == ((b[3] % 16) * 65536) + (b[4] * 256) + b[5]
        rest == { b[i] : i \in 6..9 }
    IN  IF IsNaN(f) THEN e = 2047 /\ (fraction # 0 \/ rest # {0})
        ELSE IF IsInf(f) THEN e = 2047 /\ fraction = 0 /\ rest = {0} /\ sign = f.n
        ELSE IF f.n = 0 THEN e = 0 /\ fraction = 0 /\ rest = {0}
        ELSE /\ rest = {0}
             /\ e \in 1..2046
             /\ IF e >= 1023
                THEN f.n * 1048576 = sign * (1048576 + fraction) * (2 ^ (e - 1023)) * f.d
                ELSE f.n * 1048576 * (2 ^ (1023 - e)) = sign * (1048576 + fraction) * f.d

\* C12: to_vec(v) is 9 bytes, the tag 0 and the big-endian two's complement
\* of an Int, the tag 1 and the big-endian bit pattern of a Float; decoding
\* them gives back v; decoding a payload of any other tag panics with
\* "invalid value type".
C12_EncodingRoundTrip ==
    /\ (pc \in {"payload", "decoded"} /\ args # Unset) =>
          /\ Len(bytecode) = 9
          /\ \A i \in 1..9 : bytecode[i] \in 0..255
          /\ IF IsInt(args.value)
             THEN bytecode[1] = 0 /\ IsTwosComplementOf(bytecode, args.value.n)
             ELSE bytecode[1] = 1 /\ IsBitPatternOf(bytecode, args.value)
    /\ (pc = "decoded" /\ args # Unset) => result = args.value
    /\ (pc = "decoded" /\ args = Unset) => result = Panic("invalid value type")

\* -2.5 was encoded as 01 c0 04 00 00 00 00 00 00 and decoded to -2.5
C12_Witness ==
    /\ pc = "decoded"
    /\ args # Unset
    /\ args.value = ValueFloat(-5, 2)
    /\ bytecode = <<1, 192, 4, 0, 0, 0, 0, 0, 0>>
    /\ result = ValueFloat(-5, 2)

\* the maximum depth of the Vm is large enough for the line's program
LargeEnough == stackMax >= OperandDepth(Ast)

\* run is about to execute the Return instruction
ReturnExecutes ==
    pc = "run" /\ position < Len(bytecode) /\ bytecode[position + 1] = Return

\* C13: on a Vm large enough for a compiled program, the stack holds exactly
\* one value when Return executes; run returns that value and leaves the
\* stack empty; every call of run starts on an empty stack, and a later call
\* returns what the first call returned.
C13_OneValueAtReturn ==
    [][ LargeEnough =>
          /\ ReturnExecutes =>
                /\ Len(stack) = 1
                /\ pc' = "returned"
                /\ result' = [tag |-> "Some", value |-> stack[1]]
                /\ stack' = <<>>
                /\ args.returned # <<>> => result' = args.returned[1]
          /\ (pc = "run" /\ pc' = "returned") => ReturnExecutes
          /\ (pc' = "run" /\ position' = 0) => stack' = <<>> ]_vars

\* "2 * (3 + 4)" returned 14 twice, and run returned a second time with the
\* stack empty
C13_Witness ==
    /\ pc = "returned"
    /\ input = <<"2", " ", "*", " ", "(", "3", " ", "+", " ", "4", ")">>
    /\ LargeEnough
    /\ Len(args.returned) = 1
    /\ args.returned[1] = [tag |-> "Some", value |-> ValueInt(14)]
    /\ result = args.returned[1]
    /\ stack = <<>>

====
